---------------------------- MODULE Spec2Model ----------------------------
(***************************************************************************)
(* Vimercise: the exercise success / cursor model of vimercise.js (the     *)
(* main page) and daily.js (the daily page).                               *)
(*                                                                         *)
(* Texts are sequences of code points.  A code point is written as a short *)
(* string: "a", "b" are ASCII letters, "U" is U+0332 (combining            *)
(* underline), "ma"/"mb" are the mathematical-monospace letters U+1D68A /  *)
(* U+1D68B, "E" is any other character outside the BMP (an emoji), "^" is  *)
(* the daily page's cursor marker.  JavaScript's String.length and the     *)
(* editor's offsets count UTF-16 code units: Len16 below.                  *)
(***************************************************************************)
EXTENDS Integers, Sequences, FiniteSets, TLC

(* ---------- bounds of the model ---------- *)
MaxLen == 3
MaxKeys == 1
MaxCustom == 1

(* null / undefined of the source (cursorPos: null, findIndex: -1) *)
NULL == -1

(* ---------- code points ---------- *)
COMBINING_UNDERLINE == "U"
CURSOR_MARKER == "^"

\* code points that occupy two UTF-16 code units
Astral == {"E", "ma", "mb"}

\* the mathToAscii map, restricted to the letters of the model's alphabet
mathToAscii == [c \in {"ma", "mb"} |-> IF c = "ma" THEN "a" ELSE "b"]

\* the asciiToMath map (the reverse of mathToAscii)
asciiToMath == [c \in {"a", "b"} |-> IF c = "a" THEN "ma" ELSE "mb"]

\* String(undefined): what `undefined + COMBINING_UNDERLINE` starts with
UndefinedText == <<"u", "n", "d", "e", "f", "i", "n", "e", "d">>

Width16(c) == IF c \in Astral THEN 2 ELSE 1

\* text.length of JavaScript: UTF-16 code units
RECURSIVE Len16(_)
Len16(text) ==
    IF text = <<>> THEN 0 ELSE Width16(Head(text)) + Len16(Tail(text))

\* the offsets an editor can report for a text: the code point boundaries
Boundaries(text) == {Len16(SubSeq(text, 1, k)) : k \in 0..Len(text)}

(* ---------- cursor-marker codec, vimercise.js ---------- *)

\* the loop of parseUnderlinedCursor; i is the 1-based index into Array.from(text),
\* resultPos of the source is Len(result): one per code point appended
RECURSIVE parseUnderlinedLoop(_, _, _, _)
parseUnderlinedLoop(chars, i, result, cursorPos) ==
    IF i > Len(chars)
    THEN [text |-> result, cursorPos |-> cursorPos]
    ELSE LET char == chars[i]
             nextIsUnderline == i + 1 <= Len(chars) /\ chars[i + 1] = COMBINING_UNDERLINE
             plainChar == IF char \in DOMAIN mathToAscii THEN mathToAscii[char] ELSE char
         IN  IF nextIsUnderline
             THEN parseUnderlinedLoop(chars, i + 2, Append(result, plainChar), Len(result))
             ELSE IF char # COMBINING_UNDERLINE
                  THEN parseUnderlinedLoop(chars, i + 1, Append(result, char), cursorPos)
                  ELSE parseUnderlinedLoop(chars, i + 1, result, cursorPos)

parseUnderlinedCursor(text) == parseUnderlinedLoop(text, 1, <<>>, NULL)

\* cursorPos is a UTF-16 offset (selection.main.head), chars is indexed by code point
insertUnderlinedCursor(text, cursorPos) ==
    IF cursorPos < 0 \/ cursorPos >= Len16(text)
    THEN text
    ELSE IF cursorPos < Len(text)
         THEN LET charAtPos == text[cursorPos + 1]
                  mathChar == IF charAtPos \in DOMAIN asciiToMath
                              THEN asciiToMath[charAtPos] ELSE charAtPos
              IN  SubSeq(text, 1, cursorPos) \o <<mathChar, COMBINING_UNDERLINE>>
                      \o SubSeq(text, cursorPos + 2, Len(text))
         \* chars[cursorPos] is undefined: the assignment leaves holes, which join as ''
         ELSE text \o UndefinedText \o <<COMBINING_UNDERLINE>>

(* ---------- cursor-marker codec, daily.js ---------- *)

\* text.indexOf(CURSOR_MARKER) as a 1-based code point index, 0 when absent
RECURSIVE markerAt(_, _)
markerAt(text, i) ==
    IF i > Len(text) THEN 0
    ELSE IF text[i] = CURSOR_MARKER THEN i ELSE markerAt(text, i + 1)

dailyParseTextWithCursor(text) ==
    LET k == markerAt(text, 1)
    IN  IF k = 0
        THEN [text |-> text, cursorPos |-> NULL]
        ELSE [text |-> SubSeq(text, 1, k - 1) \o SubSeq(text, k + 1, Len(text)),
              cursorPos |-> Len16(SubSeq(text, 1, k - 1))]

parseTextWithCursor_pipeMarker(v, text) ==
    LET pipes == {i \in 1..Len(text) : text[i] = "|"}
        k == CHOOSE i \in pipes : \A j \in pipes : i <= j
    IN  IF pipes = {}
        THEN [text |-> text, cursorPos |-> NULL]
        ELSE [text |-> SubSeq(text, 1, k - 1) \o SubSeq(text, k + 1, Len(text)),
              cursorPos |-> Len16(SubSeq(text, 1, k - 1))]

parseTextWithCursor(v, text) ==
    IF v = "daily" THEN dailyParseTextWithCursor(text) ELSE parseUnderlinedCursor(text)

(* ---------- the three clamps ---------- *)

\* checkSuccess: the cursor the editor must have
ExpectedCursorPos_clampToLength(finalParsed) ==
    IF finalParsed.cursorPos # NULL
       /\ finalParsed.cursorPos >= Len16(finalParsed.text)
       /\ Len16(finalParsed.text) > 0
    THEN Len16(finalParsed.text)
    ELSE finalParsed.cursorPos

ExpectedCursorPos(finalParsed) ==
    IF finalParsed.cursorPos # NULL
       /\ finalParsed.cursorPos >= Len16(finalParsed.text)
       /\ Len16(finalParsed.text) > 0
    THEN Len16(finalParsed.text) - 1
    ELSE finalParsed.cursorPos

\* loadExercise: the cursor the editor starts with
StartCursorPos_noClamp(startParsed) == startParsed.cursorPos

StartCursorPos(startParsed) ==
    IF startParsed.cursorPos # NULL
       /\ startParsed.cursorPos >= Len16(startParsed.text)
       /\ Len16(startParsed.text) > 0
    THEN Len16(startParsed.text) - 1
    ELSE startParsed.cursorPos

\* createTargetView: the position that gets the target-cursor decoration, NULL for none
HighlightPos_noClamp(parsed) ==
    IF parsed.cursorPos = NULL \/ parsed.cursorPos >= Len16(parsed.text)
    THEN NULL
    ELSE parsed.cursorPos

HighlightPos(parsed) ==
    IF parsed.cursorPos = NULL THEN NULL
    ELSE LET highlightPos == IF parsed.cursorPos >= Len16(parsed.text) /\ Len16(parsed.text) > 0
                             THEN Len16(parsed.text) - 1
                             ELSE parsed.cursorPos
         IN  IF highlightPos < Len16(parsed.text) THEN highlightPos ELSE NULL


(* ---------- the editor (codemirror + the vim plugin), a black box ---------- *)

Modes == {"normal", "insert", "visual", "replace"}

\* the documents the bounded editor can hold
Docs == {<<"a", "b">>, <<"b">>}

\* document, cursor and vim mode of an editor; in normal and visual mode the cursor
\* is on a character
EditorStates ==
    {e \in [doc : Docs, head : 0..(2 * MaxLen), mode : Modes] :
        /\ e.head \in Boundaries(e.doc)
        /\ (e.mode \in {"normal", "visual"} /\ e.doc # <<>>) => e.head < Len16(e.doc)}

NoEditor == [exists |-> FALSE, doc |-> <<>>, head |-> 0, mode |-> "normal", readOnly |-> FALSE]

\* EditorState.create + new EditorView: the selection defaults to offset 0,
\* the vim plugin starts in normal mode
createEditor(text, cursorPos) ==
    [exists |-> TRUE, doc |-> text, head |-> IF cursorPos # NULL THEN cursorPos ELSE 0,
     mode |-> "normal", readOnly |-> FALSE]

\* user is in normal mode if NOT in insert, visual, or replace mode
isInNormalMode_ignoresReplace(mode) == mode \notin {"insert", "visual"}

isInNormalMode(mode) == mode # "insert" /\ mode # "visual" /\ mode # "replace"

\* the key names that matter to the handlers; "Escape" stands for every key the
\* keystroke counter skips (Shift, Control, Alt, Meta, CapsLock, Tab, Escape), "x" for
\* every other key
Keys(v) == IF v = "daily" THEN {"r", "j", "k", "x", "Escape"} ELSE {"r", "Enter", "x", "Escape"}

UncountedKeys == {"Escape"}

\* the updates a key press can make the editor dispatch, as <<docChanged, selectionSet>>;
\* a document change that also sets the selection is handled as <<TRUE, FALSE>> is
Updates == {<<FALSE, FALSE>>, <<FALSE, TRUE>>, <<TRUE, FALSE>>}

(* ---------- localStorage ---------- *)

EmptyMap == [x \in {} |-> 0]

\* what a key of localStorage holds: nothing, text that is not JSON, or JSON text of
\* kind null / number / string / object (an object of another shape) / ok (the shape
\* the page writes, val being its content)
Absent == [kind |-> "absent", val |-> EmptyMap]

Stored(kind) == [kind |-> kind, val |-> EmptyMap]

MalformedKinds == {"notJSON", "null", "number", "string", "object"}

\* { minKeystrokes, solved: true, lastAttempt / solvedAt }; the time stamp is left out
SolvedRecord(k) == [minKeystrokes |-> k, solved |-> TRUE]

\* loadProgress: the default for no or unparsable text, else whatever JSON.parse gave;
\* val is progress.exercises
loadProgress(stored) ==
    IF stored.kind \in {"absent", "notJSON"} THEN [kind |-> "ok", val |-> EmptyMap] ELSE stored

\* loadDailyProgress: the same with {} as the default
loadDailyProgress(stored) ==
    IF stored.kind \in {"absent", "notJSON"} THEN [kind |-> "ok", val |-> EmptyMap] ELSE stored

\* loadCustomExercises: [] as the default; val is the array
loadCustomExercises(stored) ==
    IF stored.kind \in {"absent", "notJSON"} THEN [kind |-> "ok", val |-> <<>>] ELSE stored

\* updateExerciseProgress(exerciseName, keystrokeCount) on the stored text: what the
\* key holds afterwards, and whether a TypeError was thrown (progress.exercises[...]
\* of something that has no exercises object)
updateExerciseProgress_alwaysOverwrites(stored, exerciseName, k) ==
    [threw |-> FALSE,
     stored |-> [kind |-> "ok",
                 val |-> (exerciseName :> SolvedRecord(k)) @@ loadProgress(stored).val]]

updateExerciseProgress_keepsFirst(stored, exerciseName, k) ==
    IF exerciseName \in DOMAIN loadProgress(stored).val
    THEN [threw |-> FALSE, stored |-> stored]
    ELSE [threw |-> FALSE,
          stored |-> [kind |-> "ok",
                      val |-> (exerciseName :> SolvedRecord(k)) @@ loadProgress(stored).val]]

updateExerciseProgress_dropsOthers(stored, exerciseName, k) ==
    IF \/ exerciseName \notin DOMAIN loadProgress(stored).val
       \/ k < loadProgress(stored).val[exerciseName].minKeystrokes
    THEN [threw |-> FALSE,
          stored |-> [kind |-> "ok", val |-> (exerciseName :> SolvedRecord(k))]]
    ELSE [threw |-> FALSE, stored |-> stored]

updateExerciseProgress(stored, exerciseName, k) ==
    LET progress == loadProgress(stored)
    IN  IF progress.kind # "ok"
        THEN [threw |-> TRUE, stored |-> stored]
        ELSE IF \/ exerciseName \notin DOMAIN progress.val
                \/ ~progress.val[exerciseName].solved
                \/ k < progress.val[exerciseName].minKeystrokes
             THEN [threw |-> FALSE,
                   stored |-> [kind |-> "ok",
                               val |-> (exerciseName :> SolvedRecord(k)) @@ progress.val]]
             ELSE [threw |-> FALSE, stored |-> stored]

\* saveDailyProgress(dateStr, keystrokeCount): progress[dateStr] of null throws, and so
\* does the assignment to a property of a number or a string (module code is strict)
saveDailyProgress(stored, dateStr, k) ==
    LET progress == loadDailyProgress(stored)
    IN  IF progress.kind # "ok"
        THEN [threw |-> TRUE, stored |-> stored]
        ELSE IF \/ dateStr \notin DOMAIN progress.val
                \/ k < progress.val[dateStr].minKeystrokes
             THEN [threw |-> FALSE,
                   stored |-> [kind |-> "ok",
                               val |-> (dateStr :> SolvedRecord(k)) @@ progress.val]]
             ELSE [threw |-> FALSE, stored |-> stored]

\* renderProgressTable reads progress.exercises[exercise.name] for every exercise
renderProgressTableThrows(stored, exs) ==
    loadProgress(stored).kind # "ok" /\ exs # <<>>

(* ---------- the exercise files the server may hold ---------- *)

NumDates == 3

\* a property an object does not have (undefined), as opposed to the empty string ""
Undefined == "<undefined>"

\* !value of JavaScript for a string-valued property
Falsy(value) == value \in {"", Undefined}

\* exercises.yaml: name / category / description / start / final (hint is optional) with
\* underlined cursor characters
MainYamls ==
    { << [name |-> "n1", description |-> "d", category |-> "c", hint |-> Undefined,
          start |-> <<"a", "U", "b">>, final |-> <<"a", "b", "U">>, junk |-> FALSE],
         [name |-> "n2", description |-> "d", category |-> "c", hint |-> Undefined,
          start |-> <<"a", "b">>, final |-> <<"b">>, junk |-> FALSE] >> }

\* daily_exercises.yaml: date / start / final with the ^ marker; dates are numbered in
\* the order of their YYYY-MM-DD strings
DailyYamls ==
    { << [date |-> 1, start |-> <<"^", "a", "b">>, final |-> <<"a", "b", "^">>],
         [date |-> 2, start |-> <<"a", "b">>, final |-> <<"^", "b">>] >> }

\* an element of [...customExercises] when the stored JSON is a string: a character,
\* whose name, start and final are undefined
JunkExercise ==
    [name |-> Undefined, description |-> Undefined, category |-> Undefined, hint |-> Undefined,
     start |-> <<>>, final |-> <<>>, junk |-> TRUE]

\* an exercise somebody shares, and one somebody exported without a description
SharedExercise ==
    [name |-> "n2", description |-> "d", category |-> Undefined, hint |-> Undefined,
     start |-> <<"b">>, final |-> <<"a", "b">>, junk |-> FALSE]

\* the YAML files the user can pick for import: an exercise without a description,
\* and an entry without a final text
ImportFiles ==
    { << [SharedExercise EXCEPT !.description = Undefined],
         [SharedExercise EXCEPT !.name = "n1", !.final = <<>>] >> }

\* exercises a list can hold, one of which is shared by its link: entries of a YAML
\* file (the built-in file or an imported one), where the description and the hint
\* are optional, and exercises saved by the create-exercise form, which asks for a
\* name, a description and a text in at least one of its two editors
ShareExercises ==
    {[name |-> "n2", description |-> d, category |-> c, hint |-> h,
      start |-> <<"a", "b">>, final |-> <<"b">>, junk |-> FALSE] :
        d \in {"d", Undefined}, c \in {"c", "Imported"}, h \in {Undefined, "h"}}
    \cup
    {[name |-> "n1", description |-> "d", category |-> "Custom", hint |-> h,
      start |-> texts[1], final |-> texts[2], junk |-> FALSE] :
        h \in {Undefined, "h"},
        texts \in {<< <<"b">>, <<"a", "b">> >>, << <<>>, <<"a", "b">> >>, << <<"b">>, <<>> >>}}

\* what the create-exercise form can hold when Save is clicked
CreateNames == {"n1"}

CreateStarts == {[text |-> <<"a", "b">>, cursorPos |-> 0]}

CreateTargets == {[text |-> <<"a", "b">>, cursorPos |-> 0]}

(* ---------- sharing and importing exercises, vimercise.js ---------- *)

\* String(value), as URLSearchParams.set and a template literal apply it
ToParam(value) == IF value = Undefined THEN "undefined" ELSE value

\* the query of window.location: shared says that n, st and tt are present; a
\* parameter that is absent is Undefined
NoUrl ==
    [shared |-> FALSE, n |-> Undefined, d |-> Undefined, st |-> <<>>, tt |-> <<>>,
     c |-> Undefined, h |-> Undefined]

buildShareUrl(ex) ==
    [shared |-> TRUE, n |-> ToParam(ex.name), d |-> ToParam(ex.description),
     st |-> ex.start, tt |-> ex.final,
     c |-> IF Falsy(ex.category) THEN Undefined ELSE ex.category,
     h |-> IF Falsy(ex.hint) THEN Undefined ELSE ex.hint]

\* <<>> for null, else <<the exercise>>
parseExerciseFromUrl(query) ==
    IF ~query.shared
    THEN <<>>
    ELSE << [name |-> query.n,
             description |-> IF Falsy(query.d) THEN "" ELSE query.d,
             category |-> query.c, hint |-> query.h,
             start |-> query.st, final |-> query.tt, junk |-> FALSE] >>

\* exercises.findIndex / exercises.some: the first exercise of the same name, start and
\* final, -1 when there is none
findExisting(exs, ex) ==
    LET same == {i \in 1..Len(exs) :
                    exs[i].name = ex.name /\ exs[i].start = ex.start /\ exs[i].final = ex.final}
    IN  IF same = {} THEN -1 ELSE (CHOOSE i \in same : \A j \in same : i <= j) - 1

\* importExercise(exercise, false): the index it returns (NULL for null), the exercise
\* list and the custom-exercises key afterwards, and whether customExercises.push threw
importExercise_keepsListOnly(ex, exs, stored) ==
    IF Falsy(ex.name) \/ Falsy(ex.description) \/ ex.start = <<>> \/ ex.final = <<>>
    THEN [index |-> NULL, exercises |-> exs, stored |-> stored, threw |-> FALSE]
    ELSE IF findExisting(exs, ex) # -1
         THEN [index |-> findExisting(exs, ex), exercises |-> exs, stored |-> stored,
               threw |-> FALSE]
         ELSE [index |-> Len(exs), exercises |-> Append(exs, ex), stored |-> stored,
               threw |-> FALSE]

importExercise(ex, exs, stored) ==
    IF Falsy(ex.name) \/ Falsy(ex.description) \/ ex.start = <<>> \/ ex.final = <<>>
    THEN [index |-> NULL, exercises |-> exs, stored |-> stored, threw |-> FALSE]
    ELSE IF findExisting(exs, ex) # -1
         THEN [index |-> findExisting(exs, ex), exercises |-> exs, stored |-> stored,
               threw |-> FALSE]
         ELSE LET customExercises == loadCustomExercises(stored)
              IN  IF customExercises.kind # "ok"
                  THEN [index |-> NULL, exercises |-> exs, stored |-> stored, threw |-> TRUE]
                  ELSE [index |-> Len(exs),
                        exercises |-> Append(exs, ex),
                        stored |-> [kind |-> "ok", val |-> Append(customExercises.val, ex)],
                        threw |-> FALSE]

\* the forEach of importExercisesFromYaml from entry i on; its try block catches the
\* TypeError of customExercises.push, leaving what was imported before it
RECURSIVE importEntries(_, _, _, _)
importEntries(entries, i, exs, stored) ==
    IF i > Len(entries)
    THEN [exercises |-> exs, stored |-> stored]
    ELSE LET entry == entries[i]
             ex == [entry EXCEPT !.category = IF Falsy(entry.category) THEN "Imported"
                                              ELSE entry.category]
             customExercises == loadCustomExercises(stored)
         IN  IF Falsy(entry.name) \/ entry.start = <<>> \/ entry.final = <<>>
             THEN importEntries(entries, i + 1, exs, stored)
             ELSE IF findExisting(exs, ex) # -1
                  THEN importEntries(entries, i + 1, exs, stored)
                  ELSE IF customExercises.kind # "ok"
                       THEN [exercises |-> exs, stored |-> stored]
                       ELSE importEntries(entries, i + 1, Append(exs, ex),
                                          [kind |-> "ok",
                                           val |-> Append(customExercises.val, ex)])

\* importExercisesFromYaml(yamlContent), the content being an array of entries
importExercisesFromYaml(entries, exs, stored) == importEntries(entries, 1, exs, stored)

\* the entries of a file that would be added to the list
Importable(entries, exs) ==
    {i \in 1..Len(entries) :
        /\ ~(Falsy(entries[i].name) \/ entries[i].start = <<>> \/ entries[i].final = <<>>)
        /\ findExisting(exs, entries[i]) = -1}

(* ---------- state ---------- *)

VARIABLES
    variant,               \* "main": vimercise.js, "daily": daily.js
    yaml,                  \* the exercise file on the server
    today,                 \* formatDate(new Date())
    localStorage,          \* [progress, custom, daily]: the three keys
    phase,                 \* init(): "fetching", "ready", "failed" (its catch ran)
    errorShown,            \* the alert / error message of init's catch was shown
    fetches,               \* calls of fetch since the page was opened
    handlers,              \* listeners init has registered: "none", "reset", "all"
    exercises,
    currentExerciseIndex,
    exercise,              \* daily.js: <<>> for null, else <<the exercise>>
    selectedDateStr,
    keystrokeCount,
    isSuccess,
    editorView,
    pc,                    \* "idle", or "dispatch": a keydown is on its way up to document
    event,                 \* the keydown being dispatched
    best,                  \* history: per name, the least keystroke count of the successes
                           \* since the record was last empty
    raised,                \* a TypeError was thrown by an operation
    codec,                 \* the codec's input and output (CodecSpec only)
    url,                   \* the query of window.location (vimercise.js)
    reading,               \* the import file a FileReader is reading (vimercise.js)
    share                  \* an exercise being shared by URL (ShareSpec only)

vars == <<variant, yaml, today, localStorage, phase, errorShown, fetches, handlers, exercises,
          currentExerciseIndex, exercise, selectedDateStr, keystrokeCount, isSuccess,
          editorView, pc, event, best, raised, codec, url, reading, share>>

NoEvent == [type |-> "none", key |-> "none", checked |-> FALSE, counted |-> FALSE]

\* no FileReader at work
NoFile == [pending |-> FALSE, entries |-> <<>>]

ShareIdle == [phase |-> "off", exercise |-> <<>>, index |-> NULL]

NoParse == [text |-> <<>>, cursorPos |-> NULL]

\* the codec on its own: phase "off" (not in use), "input", "saved" (a text and cursor
\* went through insertUnderlinedCursor and back), "decoded" (an exercise text was parsed
\* and its three clamps taken)
CodecIdle ==
    [phase |-> "off", text |-> <<>>, cursorPos |-> NULL, marked |-> <<>>, parsed |-> NoParse,
     expected |-> NULL, start |-> NULL, highlight |-> NULL, view |-> NoEditor]

Min(S) == CHOOSE x \in S : \A y \in S : x <= y

getCurrentExercise == IF variant = "daily" THEN exercise[1] ELSE exercises[currentExerciseIndex + 1]

\* exerciseDateSet and sortedDates of daily.js
exerciseDateSet == {exercises[i].date : i \in 1..Len(exercises)}

RECURSIVE SortSet(_)
SortSet(S) == IF S = {} THEN <<>> ELSE <<Min(S)>> \o SortSet(S \ {Min(S)})

sortedDates == SortSet(exerciseDateSet)

indexOf(seq, x) == IF \E i \in 1..Len(seq) : seq[i] = x
                   THEN (CHOOSE i \in 1..Len(seq) : seq[i] = x) - 1
                   ELSE -1

(* ---------- the pages as opened ---------- *)

PageOpened ==
    /\ phase = "fetching"
    /\ errorShown = FALSE
    /\ fetches = 1
    /\ handlers = "none"
    /\ exercises = <<>>
    /\ currentExerciseIndex = 0
    /\ exercise = <<>>
    /\ selectedDateStr = NULL
    /\ keystrokeCount = 0
    /\ isSuccess = FALSE
    /\ editorView = NoEditor
    /\ pc = "idle"
    /\ event = NoEvent
    /\ raised = FALSE
    /\ reading = NoFile

World ==
    /\ variant \in {"main", "daily"}
    /\ yaml \in (IF variant = "main" THEN MainYamls ELSE DailyYamls)
    /\ today \in (IF variant = "main" THEN {1} ELSE 1..NumDates)
    /\ url \in (IF variant = "main" THEN {NoUrl, buildShareUrl(SharedExercise)} ELSE {NoUrl})
    /\ best = EmptyMap
    /\ share = ShareIdle

\* a browser that holds nothing yet under the three keys
Init ==
    /\ World
    /\ localStorage = [progress |-> Absent, custom |-> Absent, daily |-> Absent]
    /\ PageOpened
    /\ codec = CodecIdle

(* ---------- checkSuccess ---------- *)

\* checkSuccess(view) of both pages, as a function of what it reads: the new isSuccess,
\* the view (its read-only compartment reconfigured), what localStorage holds, whether
\* the save threw, and whether this call was the transition to success
checkSuccess_savesBeforeModeCheck(ex, view, wasSuccess, count, storage) ==
    LET finalParsed == parseTextWithCursor(variant, ex.final)
        textMatches == view.doc = finalParsed.text
        expectedCursorPos == ExpectedCursorPos(finalParsed)
        cursorMatches == expectedCursorPos = NULL \/ view.head = expectedCursorPos
        inNormalMode == isInNormalMode(view.mode)
        saved == IF variant = "daily"
                 THEN saveDailyProgress(storage.daily, today, count)
                 ELSE updateExerciseProgress(storage.progress, ex.name, count)
        written == IF variant = "daily"
                   THEN [storage EXCEPT !.daily = saved.stored]
                   ELSE [storage EXCEPT !.progress = saved.stored]
    IN  IF textMatches /\ cursorMatches
        THEN IF inNormalMode /\ ~wasSuccess
             THEN [isSuccess |-> TRUE, view |-> [view EXCEPT !.readOnly = TRUE],
                   storage |-> written, threw |-> saved.threw, succeeded |-> TRUE]
             ELSE [isSuccess |-> wasSuccess, view |-> view, storage |-> written,
                   threw |-> saved.threw, succeeded |-> FALSE]
        ELSE [isSuccess |-> FALSE, view |-> [view EXCEPT !.readOnly = FALSE],
              storage |-> storage, threw |-> FALSE, succeeded |-> FALSE]

checkSuccess(ex, view, wasSuccess, count, storage) ==
    LET finalParsed == parseTextWithCursor(variant, ex.final)
        textMatches == view.doc = finalParsed.text
        expectedCursorPos == ExpectedCursorPos(finalParsed)
        cursorMatches == expectedCursorPos = NULL \/ view.head = expectedCursorPos
        inNormalMode == isInNormalMode(view.mode)
        saved == IF variant = "daily"
                 THEN saveDailyProgress(storage.daily, today, count)
                 ELSE updateExerciseProgress(storage.progress, ex.name, count)
    IN  IF textMatches /\ cursorMatches /\ inNormalMode
        THEN IF ~wasSuccess
             THEN [isSuccess |-> TRUE,
                   view |-> [view EXCEPT !.readOnly = TRUE],
                   storage |-> IF variant = "daily"
                               THEN [storage EXCEPT !.daily = saved.stored]
                               ELSE [storage EXCEPT !.progress = saved.stored],
                   threw |-> saved.threw,
                   succeeded |-> TRUE]
             ELSE [isSuccess |-> wasSuccess, view |-> view, storage |-> storage,
                   threw |-> FALSE, succeeded |-> FALSE]
        ELSE IF wasSuccess
             THEN [isSuccess |-> FALSE,
                   view |-> [view EXCEPT !.readOnly = FALSE],
                   storage |-> storage, threw |-> FALSE, succeeded |-> FALSE]
             ELSE [isSuccess |-> wasSuccess, view |-> view, storage |-> storage,
                   threw |-> FALSE, succeeded |-> FALSE]

\* the history of successes: the least count per exercise name (main page)
Succeeded(name, count) ==
    (name :> (IF name \in DOMAIN best THEN Min({best[name], count}) ELSE count)) @@ best

(* ---------- loadExercise ---------- *)

\* loadExercise(index) of vimercise.js and loadExercise() of daily.js for exercise ex,
\* with exs the exercise list and storage what localStorage holds by then.  An element
\* without a start text throws before anything is reset; renderProgressTable, the last
\* call of the main page's loadExercise, throws after the editor is created.
loadExercise_keepsCount(ex, exs, storage) ==
    IF variant = "main" /\ ex.junk
    THEN /\ raised' = TRUE
         /\ UNCHANGED <<keystrokeCount, isSuccess, editorView>>
    ELSE LET startParsed == parseTextWithCursor(variant, ex.start)
             startCursorPos == StartCursorPos(startParsed)
         IN  /\ keystrokeCount' = keystrokeCount
             /\ isSuccess' = FALSE
             /\ editorView' = createEditor(startParsed.text, startCursorPos)
             /\ raised' = (raised \/ (variant = "main"
                                       /\ renderProgressTableThrows(storage.progress, exs)))

loadExercise(ex, exs, storage) ==
    IF variant = "main" /\ ex.junk
    THEN /\ raised' = TRUE
         /\ UNCHANGED <<keystrokeCount, isSuccess, editorView>>
    ELSE LET startParsed == parseTextWithCursor(variant, ex.start)
             startCursorPos == StartCursorPos(startParsed)
         IN  /\ keystrokeCount' = 0
             /\ isSuccess' = FALSE
             /\ editorView' = createEditor(startParsed.text, startCursorPos)
             /\ raised' = (raised \/ (variant = "main"
                                       /\ renderProgressTableThrows(storage.progress, exs)))

loadExerciseThrows(ex, exs, storage) ==
    variant = "main" /\ (ex.junk \/ renderProgressTableThrows(storage.progress, exs))

(* ---------- init ---------- *)

\* init's catch: the alert of vimercise.js, the error message of daily.js
InitCatch_noMessage ==
    /\ phase' = "failed"
    /\ UNCHANGED errorShown

InitCatch ==
    /\ phase' = "failed"
    /\ errorShown' = TRUE

\* fetch rejected, or response.ok false
FetchFailed ==
    /\ phase = "fetching"
    /\ InitCatch
    /\ UNCHANGED <<variant, yaml, today, localStorage, fetches, handlers, exercises,
                   currentExerciseIndex, exercise, selectedDateStr, keystrokeCount,
                   isSuccess, editorView, pc, event, best, raised, codec, url, reading, share>>

\* checkUrlForSharedExercise: importExercise's result for the exercise in the URL, or
\* a null index and nothing changed when there is none
checkUrlForSharedExercise(query, exs, stored) ==
    IF parseExerciseFromUrl(query) = <<>>
    THEN [index |-> NULL, exercises |-> exs, stored |-> stored, threw |-> FALSE]
    ELSE importExercise(parseExerciseFromUrl(query)[1], exs, stored)

\* vimercise.js, the fetch answered: the rest of init
MainFetched ==
    /\ phase = "fetching"
    /\ variant = "main"
    /\ LET customExercises == loadCustomExercises(localStorage.custom)
       IN  IF customExercises.kind \in {"null", "number", "object"}
           THEN \* [...builtInExercises, ...customExercises] of something not iterable
                /\ InitCatch
                /\ raised' = TRUE
                /\ UNCHANGED <<handlers, exercises, currentExerciseIndex, keystrokeCount,
                               isSuccess, editorView, localStorage, url>>
           ELSE LET merged == yaml \o (IF customExercises.kind = "string"
                                       THEN <<JunkExercise>> ELSE customExercises.val)
                    imported == checkUrlForSharedExercise(url, merged, localStorage.custom)
                    exs == imported.exercises
                    storage == [localStorage EXCEPT !.custom = imported.stored]
                    initialIndex == IF imported.index # NULL THEN imported.index ELSE 0
                IN  IF imported.threw
                    THEN \* customExercises.push of a string
                         /\ InitCatch
                         /\ raised' = TRUE
                         /\ exercises' = merged
                         /\ UNCHANGED <<handlers, currentExerciseIndex, keystrokeCount,
                                        isSuccess, editorView, localStorage, url>>
                    ELSE /\ exercises' = exs
                         /\ localStorage' = storage
                         \* history.replaceState drops the query once it was imported
                         /\ url' = IF imported.index # NULL THEN NoUrl ELSE url
                         /\ currentExerciseIndex' = initialIndex
                         /\ IF exs = <<>>
                            THEN \* exercises[0] is undefined
                                 /\ InitCatch
                                 /\ handlers' = "reset"
                                 /\ raised' = TRUE
                                 /\ UNCHANGED <<keystrokeCount, isSuccess, editorView>>
                            ELSE /\ loadExercise(exs[initialIndex + 1], exs, storage)
                                 /\ IF loadExerciseThrows(exs[initialIndex + 1], exs, storage)
                                    THEN InitCatch /\ handlers' = "reset"
                                    ELSE /\ phase' = "ready"
                                         /\ handlers' = "all"
                                         /\ UNCHANGED errorShown
    /\ UNCHANGED <<variant, yaml, today, fetches, exercise, selectedDateStr,
                   pc, event, best, codec, reading, share>>

\* selectDate(dateStr) of daily.js, exs being the exercise list
selectDate(exs, dateStr) ==
    IF \E i \in 1..Len(exs) : exs[i].date = dateStr
    THEN LET ex == exs[CHOOSE i \in 1..Len(exs) :
                          /\ exs[i].date = dateStr
                          /\ \A j \in 1..(i - 1) : exs[j].date # dateStr]
         IN  /\ selectedDateStr' = dateStr
             /\ exercise' = <<ex>>
             /\ loadExercise(ex, exs, localStorage)
    ELSE UNCHANGED <<selectedDateStr, exercise, keystrokeCount, isSuccess, editorView, raised>>

\* daily.js, the fetch answered: the rest of init
DailyFetched ==
    /\ phase = "fetching"
    /\ variant = "daily"
    /\ exercises' = yaml
    /\ selectDate(yaml, today)
    /\ phase' = "ready"
    /\ handlers' = "all"
    /\ UNCHANGED <<variant, yaml, today, localStorage, errorShown, fetches,
                   currentExerciseIndex, pc, event, best, codec, url, reading, share>>

\* the user reloads the page: the script starts again, localStorage stays
Reload ==
    /\ pc = "idle"
    /\ phase # "fetching"
    /\ phase' = "fetching"
    /\ errorShown' = FALSE
    /\ fetches' = 1
    /\ handlers' = "none"
    /\ exercises' = <<>>
    /\ currentExerciseIndex' = 0
    /\ exercise' = <<>>
    /\ selectedDateStr' = NULL
    /\ keystrokeCount' = 0
    /\ isSuccess' = FALSE
    /\ editorView' = NoEditor
    /\ raised' = FALSE
    /\ reading' = NoFile
    /\ UNCHANGED <<variant, yaml, today, localStorage, pc, event, best, codec, url, share>>

(* ---------- key presses ---------- *)

\* what loadExercise and the navigation around it may change
PageVars == <<currentExerciseIndex, exercise, selectedDateStr, keystrokeCount, isSuccess,
              editorView, raised>>

retryCurrentExercise ==
    /\ loadExercise(exercises[currentExerciseIndex + 1], exercises, localStorage)
    /\ UNCHANGED <<currentExerciseIndex, exercise, selectedDateStr>>

advanceToNextExercise_wraps ==
    IF currentExerciseIndex < Len(exercises) - 1
    THEN /\ currentExerciseIndex' = currentExerciseIndex + 1
         /\ loadExercise(exercises[currentExerciseIndex + 2], exercises, localStorage)
         /\ UNCHANGED <<exercise, selectedDateStr>>
    ELSE /\ currentExerciseIndex' = 0
         /\ loadExercise(exercises[1], exercises, localStorage)
         /\ UNCHANGED <<exercise, selectedDateStr>>

advanceToNextExercise ==
    IF currentExerciseIndex < Len(exercises) - 1
    THEN /\ currentExerciseIndex' = currentExerciseIndex + 1
         /\ loadExercise(exercises[currentExerciseIndex + 2], exercises, localStorage)
         /\ UNCHANGED <<exercise, selectedDateStr>>
    ELSE UNCHANGED PageVars

selectNextDate ==
    LET idx == indexOf(sortedDates, selectedDateStr)
    IN  IF selectedDateStr = NULL \/ idx = -1 \/ idx >= Len(sortedDates) - 1
        THEN UNCHANGED PageVars
        ELSE selectDate(exercises, sortedDates[idx + 2]) /\ UNCHANGED currentExerciseIndex

selectPrevDate ==
    LET idx == indexOf(sortedDates, selectedDateStr)
    IN  IF selectedDateStr = NULL \/ idx <= 0
        THEN UNCHANGED PageVars
        ELSE selectDate(exercises, sortedDates[idx]) /\ UNCHANGED currentExerciseIndex

\* the document-level keydown listener that init registers last
globalKeydown_ignoresSuccess(key) ==
    IF handlers # "all"
    THEN UNCHANGED PageVars
    ELSE IF variant = "main"
         THEN IF key = "r"
              THEN IF currentExerciseIndex + 1 \in DOMAIN exercises
                   THEN retryCurrentExercise
                   ELSE /\ raised' = TRUE
                        /\ UNCHANGED <<currentExerciseIndex, exercise, selectedDateStr,
                                       keystrokeCount, isSuccess, editorView>>
              ELSE IF key = "Enter" THEN advanceToNextExercise
              ELSE UNCHANGED PageVars
         ELSE IF key = "r"
              THEN IF exercise # <<>>
                   THEN /\ loadExercise(exercise[1], exercises, localStorage)
                        /\ UNCHANGED <<currentExerciseIndex, exercise, selectedDateStr>>
                   ELSE /\ raised' = TRUE
                        /\ UNCHANGED <<currentExerciseIndex, exercise, selectedDateStr,
                                       keystrokeCount, isSuccess, editorView>>
              ELSE IF key = "j" THEN selectNextDate
              ELSE IF key = "k" THEN selectPrevDate
              ELSE UNCHANGED PageVars

globalKeydown(key) ==
    IF handlers # "all" \/ ~isSuccess
    THEN UNCHANGED PageVars
    ELSE IF variant = "main"
         THEN IF key = "r" THEN retryCurrentExercise
              ELSE IF key = "Enter" THEN advanceToNextExercise
              ELSE UNCHANGED PageVars
         ELSE IF key = "r"
              THEN /\ loadExercise(exercise[1], exercises, localStorage)
                   /\ UNCHANGED <<currentExerciseIndex, exercise, selectedDateStr>>
              ELSE IF key = "j" THEN selectNextDate
              ELSE IF key = "k" THEN selectPrevDate
              ELSE UNCHANGED PageVars

\* a keydown in the editor while isSuccess is false: the capture-phase listener counts
\* it, the vim plugin handles it (any change of document, cursor and mode; docChanged
\* and selectionSet are the flags of the update it dispatches), the update listener
\* calls checkSuccess, and the event goes on to document unless the editor stopped it
EditorKeydown_countsAfterVim(key, new, docChanged, selectionSet, propagates) ==
    /\ pc = "idle"
    /\ editorView.exists
    /\ ~isSuccess
    /\ key \notin UncountedKeys => keystrokeCount < MaxKeys
    \* a key that does not reach document is told apart only by whether it is counted
    /\ ~propagates => key \in {"x", "Escape"}
    /\ new.doc # editorView.doc => docChanged
    /\ new.head # editorView.head => (docChanged \/ selectionSet)
    /\ LET count == IF key \notin UncountedKeys THEN keystrokeCount + 1 ELSE keystrokeCount
           view == [editorView EXCEPT !.doc = new.doc, !.head = new.head, !.mode = new.mode]
           ex == getCurrentExercise
           res == checkSuccess(ex, view, isSuccess, keystrokeCount, localStorage)
       IN  /\ keystrokeCount' = count
           /\ IF docChanged \/ selectionSet
              THEN /\ isSuccess' = res.isSuccess
                   /\ editorView' = res.view
                   /\ localStorage' = res.storage
                   /\ raised' = (raised \/ res.threw)
                   /\ best' = IF res.succeeded /\ variant = "main"
                              THEN Succeeded(ex.name, count) ELSE best
              ELSE /\ editorView' = view
                   /\ UNCHANGED <<isSuccess, localStorage, raised, best>>
    /\ pc' = "dispatch"
    /\ event' = [type |-> "keydown", key |-> IF propagates THEN key ELSE "none",
                 checked |-> docChanged \/ selectionSet,
                 counted |-> key \notin UncountedKeys]
    /\ UNCHANGED <<variant, yaml, today, phase, errorShown, fetches, handlers, exercises,
                   currentExerciseIndex, exercise, selectedDateStr, codec, url, reading, share>>

EditorKeydown_countsTwice(key, new, docChanged, selectionSet, propagates) ==
    /\ pc = "idle"
    /\ editorView.exists
    /\ ~isSuccess
    /\ key \notin UncountedKeys => keystrokeCount < MaxKeys
    \* a key that does not reach document is told apart only by whether it is counted
    /\ ~propagates => key \in {"x", "Escape"}
    /\ new.doc # editorView.doc => docChanged
    /\ new.head # editorView.head => (docChanged \/ selectionSet)
    /\ LET count == IF key \notin UncountedKeys THEN keystrokeCount + 2 ELSE keystrokeCount
           view == [editorView EXCEPT !.doc = new.doc, !.head = new.head, !.mode = new.mode]
           ex == getCurrentExercise
           res == checkSuccess(ex, view, isSuccess, count, localStorage)
       IN  /\ keystrokeCount' = count
           /\ IF docChanged \/ selectionSet
              THEN /\ isSuccess' = res.isSuccess
                   /\ editorView' = res.view
                   /\ localStorage' = res.storage
                   /\ raised' = (raised \/ res.threw)
                   /\ best' = IF res.succeeded /\ variant = "main"
                              THEN Succeeded(ex.name, count) ELSE best
              ELSE /\ editorView' = view
                   /\ UNCHANGED <<isSuccess, localStorage, raised, best>>
    /\ pc' = "dispatch"
    /\ event' = [type |-> "keydown", key |-> IF propagates THEN key ELSE "none",
                 checked |-> docChanged \/ selectionSet,
                 counted |-> key \notin UncountedKeys]
    /\ UNCHANGED <<variant, yaml, today, phase, errorShown, fetches, handlers, exercises,
                   currentExerciseIndex, exercise, selectedDateStr, codec, url, reading, share>>

EditorKeydown(key, new, docChanged, selectionSet, propagates) ==
    /\ pc = "idle"
    /\ editorView.exists
    /\ ~isSuccess
    /\ key \notin UncountedKeys => keystrokeCount < MaxKeys
    \* a key that does not reach document is told apart only by whether it is counted
    /\ ~propagates => key \in {"x", "Escape"}
    /\ new.doc # editorView.doc => docChanged
    /\ new.head # editorView.head => (docChanged \/ selectionSet)
    /\ LET count == IF key \notin UncountedKeys THEN keystrokeCount + 1 ELSE keystrokeCount
           view == [editorView EXCEPT !.doc = new.doc, !.head = new.head, !.mode = new.mode]
           ex == getCurrentExercise
           res == checkSuccess(ex, view, isSuccess, count, localStorage)
       IN  /\ keystrokeCount' = count
           /\ IF docChanged \/ selectionSet
              THEN /\ isSuccess' = res.isSuccess
                   /\ editorView' = res.view
                   /\ localStorage' = res.storage
                   /\ raised' = (raised \/ res.threw)
                   /\ best' = IF res.succeeded /\ variant = "main"
                              THEN Succeeded(ex.name, count) ELSE best
              ELSE /\ editorView' = view
                   /\ UNCHANGED <<isSuccess, localStorage, raised, best>>
    /\ pc' = "dispatch"
    /\ event' = [type |-> "keydown", key |-> IF propagates THEN key ELSE "none",
                 checked |-> docChanged \/ selectionSet,
                 counted |-> key \notin UncountedKeys]
    /\ UNCHANGED <<variant, yaml, today, phase, errorShown, fetches, handlers, exercises,
                   currentExerciseIndex, exercise, selectedDateStr, codec, url, reading, share>>

\* a keydown in the editor while isSuccess is true: not counted, and successBlocker
\* stops it before the vim plugin and before document
EditorKeydownBlocked_reachesVim ==
    /\ pc = "idle"
    /\ editorView.exists
    /\ isSuccess
    /\ \E new \in EditorStates :
          LET view == [editorView EXCEPT !.doc = new.doc, !.head = new.head,
                                         !.mode = new.mode]
              res == checkSuccess(getCurrentExercise, view, isSuccess, keystrokeCount,
                                  localStorage)
          IN  /\ isSuccess' = res.isSuccess
              /\ editorView' = res.view
    /\ UNCHANGED <<variant, yaml, today, localStorage, phase, errorShown, fetches, handlers,
                   exercises, currentExerciseIndex, exercise, selectedDateStr, keystrokeCount,
                   pc, event, raised, best, codec, url, reading, share>>

EditorKeydownBlocked ==
    /\ pc = "idle"
    /\ editorView.exists
    /\ isSuccess
    /\ UNCHANGED vars

\* a mousedown in the editor: blockMouseSelection prevents the default (placing the
\* cursor, selecting), and stops the event when isSuccess is true; nothing listens for
\* a mousedown at document
EditorMousedown_placesCursor ==
    /\ pc = "idle"
    /\ editorView.exists
    /\ pc' = "dispatch"
    /\ event' = [type |-> "mousedown", key |-> "none", checked |-> FALSE, counted |-> FALSE]
    /\ editorView' = [editorView EXCEPT !.head = 0]
    /\ UNCHANGED <<variant, yaml, today, localStorage, phase, errorShown, fetches, handlers,
                   exercises, currentExerciseIndex, exercise, selectedDateStr, keystrokeCount,
                   isSuccess, raised, best, codec, url, reading, share>>

EditorMousedown ==
    /\ pc = "idle"
    /\ editorView.exists
    /\ pc' = "dispatch"
    /\ event' = [type |-> "mousedown", key |-> "none", checked |-> FALSE, counted |-> FALSE]
    /\ UNCHANGED <<variant, yaml, today, localStorage, phase, errorShown, fetches, handlers,
                   exercises, currentExerciseIndex, exercise, selectedDateStr, keystrokeCount,
                   isSuccess, editorView, raised, best, codec, url, reading, share>>

\* the event of the editor arrives at document
EndDispatch ==
    /\ pc = "dispatch"
    /\ IF event.key # "none" THEN globalKeydown(event.key) ELSE UNCHANGED PageVars
    /\ pc' = "idle"
    /\ event' = NoEvent
    /\ UNCHANGED <<variant, yaml, today, localStorage, phase, errorShown, fetches, handlers,
                   exercises, best, codec, url, reading, share>>

\* a keydown outside the editor
DocumentKeydown(key) ==
    /\ pc = "idle"
    /\ phase # "fetching"
    /\ globalKeydown(key)
    /\ UNCHANGED <<variant, yaml, today, localStorage, phase, errorShown, fetches, handlers,
                   exercises, pc, event, best, codec, url, reading, share>>

(* ---------- buttons, rows, calendar ---------- *)

\* the Reset button: registered before init's first loadExercise (vimercise.js), or by
\* renderExerciseUI (daily.js)
ResetBtn ==
    /\ pc = "idle"
    /\ IF variant = "main"
       THEN handlers # "none" /\ exercises # <<>>
       ELSE exercise # <<>>
    /\ loadExercise(getCurrentExercise, exercises, localStorage)
    /\ UNCHANGED <<variant, yaml, today, localStorage, phase, errorShown, fetches, handlers,
                   exercises, currentExerciseIndex, exercise, selectedDateStr, pc, event,
                   best, codec, url, reading, share>>

\* a click on a row of the progress table
RowClick(index) ==
    /\ pc = "idle"
    /\ variant = "main"
    /\ phase = "ready"
    /\ index \in 0..(Len(exercises) - 1)
    /\ currentExerciseIndex' = index
    /\ loadExercise(exercises[index + 1], exercises, localStorage)
    /\ UNCHANGED <<variant, yaml, today, localStorage, phase, errorShown, fetches, handlers,
                   exercises, exercise, selectedDateStr, pc, event, best, codec, url, reading, share>>

\* the Clear Progress button
clearProgress ==
    /\ pc = "idle"
    /\ variant = "main"
    /\ handlers = "all"
    /\ localStorage' = [localStorage EXCEPT !.progress = Absent]
    /\ best' = EmptyMap
    /\ UNCHANGED <<variant, yaml, today, phase, errorShown, fetches, handlers, exercises,
                   currentExerciseIndex, exercise, selectedDateStr, keystrokeCount, isSuccess,
                   editorView, pc, event, raised, codec, url, reading, share>>

\* the entries a file being read will add to the list
PendingImports ==
    IF reading.pending THEN Cardinality(Importable(reading.entries, exercises)) ELSE 0

\* the change handler of the import file input: a file was chosen, and a FileReader
\* starts reading it
ImportFileChosen(file) ==
    /\ pc = "idle"
    /\ variant = "main"
    /\ handlers = "all"
    /\ ~reading.pending
    /\ loadCustomExercises(localStorage.custom).kind = "ok" =>
           Len(loadCustomExercises(localStorage.custom).val)
               + Cardinality(Importable(file, exercises)) <= MaxCustom
    /\ reading' = [pending |-> TRUE, entries |-> file]
    /\ UNCHANGED <<variant, yaml, today, localStorage, phase, errorShown, fetches, handlers,
                   exercises, currentExerciseIndex, exercise, selectedDateStr, keystrokeCount,
                   isSuccess, editorView, pc, event, raised, best, codec, url, share>>

\* reader.onload: the file was read, importExercisesFromYaml runs on its content
ImportFileRead_loadsImported ==
    /\ pc = "idle"
    /\ reading.pending
    /\ LET imported == importExercisesFromYaml(reading.entries, exercises, localStorage.custom)
       IN  /\ exercises' = imported.exercises
           /\ localStorage' = [localStorage EXCEPT !.custom = imported.stored]
           /\ currentExerciseIndex' = Len(imported.exercises) - 1
    /\ reading' = NoFile
    /\ UNCHANGED <<variant, yaml, today, phase, errorShown, fetches, handlers,
                   exercise, selectedDateStr, keystrokeCount,
                   isSuccess, editorView, pc, event, raised, best, codec, url, share>>

ImportFileRead ==
    /\ pc = "idle"
    /\ reading.pending
    /\ LET imported == importExercisesFromYaml(reading.entries, exercises, localStorage.custom)
       IN  /\ exercises' = imported.exercises
           /\ localStorage' = [localStorage EXCEPT !.custom = imported.stored]
    /\ reading' = NoFile
    /\ UNCHANGED <<variant, yaml, today, phase, errorShown, fetches, handlers,
                   currentExerciseIndex, exercise, selectedDateStr, keystrokeCount,
                   isSuccess, editorView, pc, event, raised, best, codec, url, share>>

\* the Save button of the create-exercise form, with a name and a description entered
saveCustomExercise(name, startingData, targetData) ==
    /\ pc = "idle"
    /\ variant = "main"
    /\ handlers = "all"
    /\ LET startText == IF startingData.cursorPos # NULL
                        THEN insertUnderlinedCursor(startingData.text, startingData.cursorPos)
                        ELSE startingData.text
           finalText == IF targetData.cursorPos # NULL
                        THEN insertUnderlinedCursor(targetData.text, targetData.cursorPos)
                        ELSE targetData.text
           \* a description was entered, no category ('Custom') and no hint
           ex == [name |-> name, description |-> "d", category |-> "Custom",
                  hint |-> Undefined, start |-> startText, final |-> finalText,
                  junk |-> FALSE]
           customExercises == loadCustomExercises(localStorage.custom)
       IN  IF customExercises.kind # "ok"
           THEN \* customExercises.push is not a function
                /\ raised' = TRUE
                /\ UNCHANGED <<localStorage, exercises, currentExerciseIndex, keystrokeCount,
                               isSuccess, editorView>>
           ELSE /\ Len(customExercises.val) + PendingImports < MaxCustom
                /\ localStorage' = [localStorage EXCEPT
                                       !.custom = [kind |-> "ok",
                                                   val |-> Append(customExercises.val, ex)]]
                /\ exercises' = Append(exercises, ex)
                /\ currentExerciseIndex' = Len(exercises)
                /\ loadExercise(ex, exercises', localStorage')
    /\ UNCHANGED <<variant, yaml, today, phase, errorShown, fetches, handlers, exercise,
                   selectedDateStr, pc, event, best, codec, url, reading, share>>

\* a click on a day of the calendar that has an exercise
CalendarClick(dateStr) ==
    /\ pc = "idle"
    /\ variant = "daily"
    /\ phase = "ready"
    /\ dateStr \in exerciseDateSet
    /\ selectDate(exercises, dateStr)
    /\ UNCHANGED <<variant, yaml, today, localStorage, phase, errorShown, fetches, handlers,
                   exercises, currentExerciseIndex, pc, event, best, codec, url, reading, share>>

(* ---------- the specification of the two pages ---------- *)

Next ==
    \/ FetchFailed
    \/ MainFetched
    \/ DailyFetched
    \/ Reload
    \/ /\ pc = "idle" /\ editorView.exists /\ ~isSuccess
       /\ \E key \in Keys(variant), propagates \in BOOLEAN :
             /\ ~propagates => key \in {"x", "Escape"}
             /\ \E new \in EditorStates, update \in Updates :
                   EditorKeydown(key, new, update[1], update[2], propagates)
    \/ EditorKeydownBlocked
    \/ EditorMousedown
    \/ EndDispatch
    \/ \E key \in Keys(variant) : DocumentKeydown(key)
    \/ ResetBtn
    \/ \E index \in 0..(Len(exercises) - 1) : RowClick(index)
    \/ clearProgress
    \/ \E file \in ImportFiles : ImportFileChosen(file)
    \/ ImportFileRead
    \/ \E name \in CreateNames, startingData \in CreateStarts, targetData \in CreateTargets :
          saveCustomExercise(name, startingData, targetData)
    \/ \E dateStr \in 1..NumDates : CalendarClick(dateStr)

Spec == Init /\ [][Next]_vars


(* ---------- properties of the pages (Spec) ---------- *)

\* the three conditions of success, read off the editor and the loaded exercise
TargetReached ==
    LET target == parseTextWithCursor(variant, getCurrentExercise.final)
        n == Len16(target.text)
        clamped == IF target.cursorPos >= n /\ n > 0 THEN n - 1 ELSE target.cursorPos
    IN  /\ editorView.doc = target.text
        /\ target.cursorPos = NULL \/ editorView.head = clamped
        /\ editorView.mode = "normal"

\* C1: right after a call of checkSuccess (either page), isSuccess is true exactly when
\* the editor text is the marker-free target text, the target has no marker or the
\* cursor head is the clamped target offset, and the editor is in normal mode
C1_SuccessIffTargetReached ==
    (pc = "dispatch" /\ event.checked) => (isSuccess <=> TargetReached)

C1_Witness ==
    /\ pc = "dispatch"
    /\ event.checked
    /\ isSuccess
    /\ parseTextWithCursor(variant, getCurrentExercise.final).cursorPos # NULL

\* C2: in every state of a loaded exercise in which the editor text is the target text,
\* the cursor is the clamped target offset (or the target has no marker) and the editor
\* is in normal mode, isSuccess is true, whatever produced the state
C2_TargetReachedIsSuccess ==
    (phase = "ready" /\ editorView.exists /\ TargetReached) => isSuccess

\* a record of the second map is missing from, worse than or unsolved in the first
Regressed(new, old) ==
    \E k \in DOMAIN old :
        \/ k \notin DOMAIN new
        \/ new[k].minKeystrokes > old[k].minKeystrokes
        \/ old[k].solved /\ ~new[k].solved

\* C3: no step other than clearProgress raises the persisted minKeystrokes of an
\* exercise name or of a date, or takes its solved flag from true to false
C3_NeverRegresses ==
    [][clearProgress \/ (/\ ~Regressed(localStorage.progress.val', localStorage.progress.val)
                         /\ ~Regressed(localStorage.daily.val', localStorage.daily.val))]_vars

C3_Witness ==
    /\ variant = "main"
    /\ isSuccess
    /\ getCurrentExercise.name \in DOMAIN localStorage.progress.val
    /\ localStorage.progress.val[getCurrentExercise.name].minKeystrokes < keystrokeCount

\* C4: the persisted minKeystrokes of an exercise name is the least keystroke count of
\* the successful attempts at it since the record was last empty (main page)
C4_StoredIsMinimum ==
    variant = "main" =>
        localStorage.progress.val = [name \in DOMAIN best |-> SolvedRecord(best[name])]

C4_Witness ==
    /\ variant = "main"
    /\ pc = "dispatch"
    /\ isSuccess
    /\ keystrokeCount = 0
    /\ DOMAIN best = {"n1", "n2"}
    /\ best["n1"] = 0
    /\ localStorage.progress.val["n1"].minKeystrokes = 0

\* C10: when the fetch of the exercise file fails, init ends with its error message
\* shown, no editor, isSuccess false, keystrokeCount 0, a single fetch made, and with
\* localStorage as it was (init's catch runs for nothing else in this specification)
C10_FetchFailureState ==
    [][phase' = "failed" =>
          /\ errorShown'
          /\ ~editorView'.exists
          /\ ~isSuccess'
          /\ keystrokeCount' = 0
          /\ fetches' = 1
          /\ handlers' = "none"
          /\ localStorage' = localStorage]_vars

C10_Witness ==
    /\ phase = "failed"
    /\ errorShown
    /\ localStorage.progress.kind = "ok"

\* the keys whose record differs between two maps
ChangedKeys(new, old) ==
    {k \in DOMAIN new \cup DOMAIN old :
        k \notin DOMAIN new \/ k \notin DOMAIN old \/ new[k] # old[k]}

\* C11: a step of the main page other than clearProgress changes no progress record but
\* the one keyed by the name of the current exercise, and a success leaves a record
\* under that name: exercises of one name and different texts share the record
C11_OnlyOwnRecord ==
    [][(variant = "main" /\ ~clearProgress) =>
          /\ \A k \in ChangedKeys(localStorage.progress.val', localStorage.progress.val) :
                k = getCurrentExercise.name
          /\ (~isSuccess /\ isSuccess' /\ ~raised') =>
                getCurrentExercise.name \in DOMAIN localStorage.progress.val']_vars

C11_Witness ==
    /\ variant = "main"
    /\ isSuccess
    /\ currentExerciseIndex >= Len(yaml)
    /\ \E i \in 1..Len(yaml) : /\ yaml[i].name = getCurrentExercise.name
                               /\ yaml[i].final # getCurrentExercise.final
    /\ \E other \in DOMAIN localStorage.progress.val : other # getCurrentExercise.name
    /\ localStorage.progress.val[getCurrentExercise.name].minKeystrokes < keystrokeCount

\* C12: when the daily exercise selected for a date (by the calendar or by J/K) is
\* solved, the record of that date is created or improved with the keystroke count of
\* the attempt, and the records of the other dates stay as they were
C12_RecordKeyedBySelectedDate ==
    [][(variant = "daily" /\ ~isSuccess /\ isSuccess') =>
          /\ selectedDateStr \in DOMAIN localStorage.daily.val'
          /\ localStorage.daily.val'[selectedDateStr].minKeystrokes <= keystrokeCount'
          /\ \A d \in ChangedKeys(localStorage.daily.val', localStorage.daily.val) :
                d = selectedDateStr]_vars

\* C14: a mousedown on the practice editor, in any state, leaves the editor's text and
\* cursor, keystrokeCount, isSuccess and everything persisted as they were
C14_MousedownChangesNothing ==
    [][(pc = "idle" /\ event'.type = "mousedown") =>
          UNCHANGED <<editorView, keystrokeCount, isSuccess, localStorage>>]_vars

C14_Witness ==
    /\ pc = "dispatch"
    /\ event.type = "mousedown"
    /\ ~isSuccess
    /\ editorView.head # 0
    /\ keystrokeCount > 0

\* a callback that runs later than the event that started it: the rest of init when
\* the fetch has answered, and the onload of the FileReader of an import
Deferred ==
    \/ phase = "fetching" /\ phase' # "fetching"
    \/ reading.pending /\ ~reading'.pending /\ phase' # "fetching"

\* the first list is the beginning of the second
IsPrefix(old, new) == Len(old) <= Len(new) /\ SubSeq(new, 1, Len(old)) = old

\* C17 as stated: no deferred callback (the completion of the fetch, of the read of an
\* import file) changes the exercise list, currentExerciseIndex, keystrokeCount,
\* isSuccess or a persisted record
C17_NoDeferredChange ==
    [][Deferred => UNCHANGED <<exercises, currentExerciseIndex, keystrokeCount, isSuccess,
                               localStorage>>]_vars

\* C17, amended: two deferred callbacks change the state.  Until the fetch has answered
\* nothing changes, as init registers the listeners only afterwards.  The onload of an
\* import runs whenever the read completes, with user events handled in between; it
\* appends to the exercise list and to the custom exercises as they are by then and
\* leaves currentExerciseIndex, keystrokeCount, isSuccess, the editor and the progress
\* records alone.
C17_DeferredLoadAndImport ==
    [][/\ (phase = "fetching" /\ phase' = "fetching") =>
             UNCHANGED <<exercises, currentExerciseIndex, keystrokeCount, isSuccess,
                         editorView, localStorage>>
       /\ (reading.pending /\ ~reading'.pending /\ phase' # "fetching") =>
             /\ UNCHANGED <<currentExerciseIndex, keystrokeCount, isSuccess, editorView>>
             /\ localStorage'.progress = localStorage.progress
             /\ localStorage'.daily = localStorage.daily
             /\ IsPrefix(exercises, exercises')
             /\ IsPrefix(localStorage.custom.val, localStorage'.custom.val)]_vars

C17_Witness ==
    /\ reading.pending
    /\ pc = "dispatch"
    /\ event.type = "keydown"
    /\ keystrokeCount > 0
    /\ Importable(reading.entries, exercises) # {}

C19_SavedOnceOnSuccess ==
    [][/\ (/\ ~clearProgress
           /\ \/ localStorage'.progress # localStorage.progress
              \/ localStorage'.daily # localStorage.daily) =>
             /\ ~isSuccess
             /\ isSuccess'
             /\ LET old == IF variant = "main" THEN localStorage.progress.val
                           ELSE localStorage.daily.val
                    new == IF variant = "main" THEN localStorage'.progress.val
                           ELSE localStorage'.daily.val
                IN  \A k \in ChangedKeys(new, old) : new[k] = SolvedRecord(keystrokeCount')
       /\ (~isSuccess /\ isSuccess' /\ ~raised') =>
             LET new == IF variant = "main" THEN localStorage'.progress.val
                        ELSE localStorage'.daily.val
                 key == IF variant = "main" THEN getCurrentExercise.name ELSE today
             IN  key \in DOMAIN new /\ new[key].minKeystrokes <= keystrokeCount'
       /\ isSuccess =>
             checkSuccess(getCurrentExercise, editorView, TRUE, keystrokeCount,
                          localStorage).storage = localStorage]_vars

C19_Witness ==
    /\ isSuccess
    /\ pc = "dispatch"
    /\ event.checked
    /\ keystrokeCount > 0
    /\ IF variant = "main"
       THEN /\ getCurrentExercise.name \in DOMAIN localStorage.progress.val
            /\ localStorage.progress.val[getCurrentExercise.name] = SolvedRecord(keystrokeCount)
       ELSE /\ today \in DOMAIN localStorage.daily.val
            /\ localStorage.daily.val[today] = SolvedRecord(keystrokeCount)

\* loadExercise ran for the exercise that is current afterwards
Loaded ==
    LET startParsed == parseTextWithCursor(variant, getCurrentExercise'.start)
    IN  /\ ~isSuccess'
        /\ keystrokeCount' = 0
        /\ editorView' = createEditor(startParsed.text, StartCursorPos(startParsed))

\* C20: once isSuccess is true it stays true, and the editor's text and cursor and
\* keystrokeCount stay as they are, under every key press and mouse event on the
\* editor, until loadExercise runs (or the page is loaded again)
C20_SuccessHoldsUntilLoad ==
    [][isSuccess =>
          \/ /\ isSuccess'
             /\ editorView'.doc = editorView.doc
             /\ editorView'.head = editorView.head
             /\ keystrokeCount' = keystrokeCount
          \/ phase' = "fetching"
          \/ Loaded]_vars

C20_Witness ==
    /\ isSuccess
    /\ pc = "dispatch"
    /\ event.type = "mousedown"
    /\ keystrokeCount > 0

\* the record a success is saved under, and the records of the page, now and next
RecordKey == IF variant = "main" THEN getCurrentExercise.name ELSE today

Records == IF variant = "main" THEN localStorage.progress.val ELSE localStorage.daily.val

\* the step is a keydown handled by the editor
EditorKeyStep == pc = "idle" /\ event'.type = "keydown"

C22_CountIsCountedKeydowns ==
    [][/\ EditorKeyStep =>
             /\ ~isSuccess
             /\ keystrokeCount' = keystrokeCount + (IF event'.counted THEN 1 ELSE 0)
       /\ (~EditorKeyStep /\ (keystrokeCount' # keystrokeCount \/ editorView' # editorView)) =>
             \/ phase' = "fetching" /\ keystrokeCount' = 0 /\ editorView' = NoEditor
             \/ Loaded]_vars

C22_Witness ==
    /\ variant = "main"
    /\ best # EmptyMap
    /\ ~isSuccess
    /\ pc = "dispatch"
    /\ event.type = "keydown"
    /\ ~event.counted
    /\ keystrokeCount = 1

\* a step that is one loadExercise and nothing else: the Reset button, a click on a
\* row or on a day, and the keys of the success state that load an exercise
LoadStep ==
    \/ ResetBtn
    \/ \E index \in 0..(Len(exercises) - 1) : RowClick(index)
    \/ \E dateStr \in 1..NumDates : CalendarClick(dateStr)
    \/ /\ isSuccess
       /\ ~isSuccess'
       /\ (\E key \in Keys(variant) : DocumentKeydown(key)) \/ EndDispatch

\* the step is retryCurrentExercise (the daily page calls loadExercise for r)
RetryStep ==
    /\ isSuccess
    /\ handlers = "all"
    /\ DocumentKeydown("r") \/ (EndDispatch /\ event.key = "r")

\* C23: loadExercise sets keystrokeCount to 0 and isSuccess to false, gives the editor
\* the decoded start text of the exercise with the cursor on its clamped start offset
\* (offset 0 without a marker), writable, and leaves the exercise list and everything
\* persisted unchanged; a retry also leaves currentExerciseIndex unchanged
C23_LoadResetsAndKeeps ==
    [][/\ LoadStep =>
             /\ Loaded
             /\ ~editorView'.readOnly
             /\ UNCHANGED <<exercises, localStorage>>
       /\ RetryStep =>
             /\ Loaded
             /\ UNCHANGED <<currentExerciseIndex, exercise, selectedDateStr>>]_vars

C23_Witness ==
    /\ phase = "ready"
    /\ IF variant = "main" THEN localStorage.progress.val # EmptyMap
                           ELSE localStorage.daily.val # EmptyMap
    /\ ~isSuccess
    /\ keystrokeCount = 0
    /\ editorView = createEditor(parseTextWithCursor(variant, getCurrentExercise.start).text,
                                 StartCursorPos(parseTextWithCursor(variant,
                                                                    getCurrentExercise.start)))
    /\ parseTextWithCursor(variant, getCurrentExercise.start).cursorPos # NULL

\* a keydown is handled by the listener of document: pressed outside the editor, or
\* arriving from the editor
DocumentKeyStep == (\E key \in Keys(variant) : DocumentKeydown(key)) \/ EndDispatch

\* C24: the keys of document act only in the success state: when its listener runs
\* with isSuccess false, whatever the key (r, Enter, j, k), the exercise is not loaded
\* again and currentExerciseIndex and the selected date stay as they are
C24_DocumentKeysNeedSuccess ==
    [][(DocumentKeyStep /\ ~isSuccess) =>
          UNCHANGED <<currentExerciseIndex, exercise, selectedDateStr, keystrokeCount,
                      isSuccess, editorView>>]_vars

C24_Witness ==
    /\ pc = "dispatch"
    /\ handlers = "all"
    /\ event.key \in {"r", "Enter", "j", "k"}
    /\ ~isSuccess
    /\ keystrokeCount > 0

\* the step is advanceToNextExercise: Enter at document in the success state
AdvanceStep ==
    /\ variant = "main"
    /\ isSuccess
    /\ handlers = "all"
    /\ DocumentKeydown("Enter") \/ (EndDispatch /\ event.key = "Enter")

\* C26: once init has succeeded, currentExerciseIndex is an index of the exercise list
\* and the editor was loaded from the exercise at that index (the index, or the
\* exercise at it, changes only together with a loadExercise of that exercise);
\* advanceToNextExercise adds exactly 1 to an index that is not the last, and at the
\* last exercise leaves the index, the editor, keystrokeCount and isSuccess unchanged
C26_IndexInRangeAndLoaded ==
    [][(variant = "main" /\ phase' = "ready") =>
          /\ 0 <= currentExerciseIndex'
          /\ currentExerciseIndex' < Len(exercises')
          /\ (/\ phase = "ready"
              /\ \/ currentExerciseIndex' # currentExerciseIndex
                 \/ exercises'[currentExerciseIndex' + 1] # exercises[currentExerciseIndex + 1])
                => Loaded
          /\ phase = "fetching" => Loaded
          /\ AdvanceStep =>
                IF currentExerciseIndex < Len(exercises) - 1
                THEN currentExerciseIndex' = currentExerciseIndex + 1 /\ Loaded
                ELSE UNCHANGED <<currentExerciseIndex, editorView, keystrokeCount,
                                 isSuccess>>]_vars

C26_Witness ==
    /\ variant = "main"
    /\ phase = "ready"
    /\ pc = "dispatch"
    /\ event.key = "Enter"
    /\ isSuccess
    /\ currentExerciseIndex = Len(exercises) - 1
    /\ Len(exercises) > Len(yaml)

(* ---------- the pages over a localStorage written by something else ---------- *)

\* a browser whose keys hold text the page did not write: main page, the progress and
\* custom-exercises keys; daily page, the daily-progress key (any JSON object is a
\* daily record, so "object" is left out there); one key at a time
InitMalformed ==
    /\ World
    /\ \E p, c, d \in {Absent} \cup {Stored(k) : k \in MalformedKinds} :
          /\ variant = "main" => (d = Absent /\ (p = Absent \/ c = Absent))
          /\ variant = "daily" => (p = Absent /\ c = Absent /\ d.kind # "object")
          /\ localStorage = [progress |-> p, custom |-> c, daily |-> d]
    /\ PageOpened
    /\ codec = CodecIdle

SpecMalformed == InitMalformed /\ [][Next]_vars

\* C9: whatever malformed text a key holds, its loader yields the empty default and
\* init and the operations after it complete without raising an error
C9_MalformedIsDiscarded ==
    phase # "fetching" =>
        /\ ~raised
        /\ variant = "main" => loadProgress(localStorage.progress).kind = "ok"
        /\ variant = "main" => loadCustomExercises(localStorage.custom).kind = "ok"
        /\ variant = "daily" => loadDailyProgress(localStorage.daily).kind = "ok"

(* ---------- sharing an exercise by its link ---------- *)

\* one person's list holds an exercise; the page of another, whose custom exercises
\* are none, that exercise, or one of the same name and texts described otherwise, is
\* about to be opened
ShareInit ==
    /\ variant = "main"
    /\ yaml \in MainYamls
    /\ today = 1
    /\ url = NoUrl
    /\ best = EmptyMap
    /\ \E ex \in ShareExercises :
          /\ share = [ShareIdle EXCEPT !.phase = "listed", !.exercise = <<ex>>]
          /\ \E custom \in {<<>>, <<ex>>, <<[ex EXCEPT !.description = "other"]>>} :
                localStorage = [progress |-> Absent,
                                custom |-> IF custom = <<>> THEN Absent
                                           ELSE [kind |-> "ok", val |-> custom],
                                daily |-> Absent]
    /\ PageOpened
    /\ codec = CodecIdle

ShareUnchanged ==
    UNCHANGED <<variant, yaml, today, phase, errorShown, fetches, handlers,
                currentExerciseIndex, exercise, selectedDateStr, keystrokeCount,
                isSuccess, editorView, pc, event, best, raised, codec, reading>>

\* loadExercise of the first person's page fills the share box with the link
ShareBuild ==
    /\ share.phase = "listed"
    /\ url' = buildShareUrl(share.exercise[1])
    /\ share' = [share EXCEPT !.phase = "built"]
    /\ UNCHANGED <<exercises, localStorage>>
    /\ ShareUnchanged

\* the other person opens the link: init merges the lists and calls
\* checkUrlForSharedExercise
ShareOpen ==
    /\ share.phase = "built"
    /\ LET merged == yaml \o loadCustomExercises(localStorage.custom).val
           imported == checkUrlForSharedExercise(url, merged, localStorage.custom)
       IN  /\ exercises' = imported.exercises
           /\ localStorage' = [localStorage EXCEPT !.custom = imported.stored]
           /\ url' = IF imported.index # NULL THEN NoUrl ELSE url
           /\ share' = [share EXCEPT !.phase = "opened", !.index = imported.index]
    /\ ShareUnchanged

ShareNext == ShareBuild \/ ShareOpen

ShareSpec == ShareInit /\ [][ShareNext]_vars

\* C13: the link of an exercise of the list, opened, gives the index of an exercise
\* with the name, description, start, final, category and hint of the shared one
C13_LinkGivesTheExercise ==
    share.phase = "opened" =>
        /\ share.index # NULL
        /\ LET got == exercises[share.index + 1]
               ex == share.exercise[1]
           IN  /\ got.name = ex.name
               /\ got.description = ex.description
               /\ got.start = ex.start
               /\ got.final = ex.final
               /\ got.category = ex.category
               /\ got.hint = ex.hint

\* C27: when the list the link is opened on already has an exercise with the name,
\* start and final of the shared one, checkUrlForSharedExercise returns the index of
\* that exercise and neither the list nor the persisted custom exercises grow
C27_ExistingIsReturned ==
    [][(share.phase = "built" /\ share'.phase = "opened") =>
          LET merged == yaml \o loadCustomExercises(localStorage.custom).val
              existing == findExisting(merged, share.exercise[1])
          IN  existing # -1 =>
                 /\ share'.index = existing
                 /\ exercises' = merged
                 /\ localStorage' = localStorage]_vars

(* ---------- the specification of the codec alone ---------- *)

\* the code points of the texts the codec is given
CodecAlphabet == {"a", "ma", "U", "E", "^", "|"}

CodecTexts == UNION {[1..n -> CodecAlphabet] : n \in 0..MaxLen}

\* a text, and a cursor the editor can report for it (getTextAndCursor)
CodecInit ==
    /\ variant \in {"main", "daily"}
    /\ yaml = <<>>
    /\ today = 1
    /\ url = NoUrl
    /\ best = EmptyMap
    /\ share = ShareIdle
    /\ localStorage = [progress |-> Absent, custom |-> Absent, daily |-> Absent]
    /\ PageOpened
    /\ \E text \in CodecTexts : \E cursorPos \in Boundaries(text) :
          codec = [CodecIdle EXCEPT !.phase = "input", !.text = text, !.cursorPos = cursorPos]

CodecUnchanged ==
    UNCHANGED <<variant, yaml, today, localStorage, phase, errorShown, fetches, handlers,
                exercises, currentExerciseIndex, exercise, selectedDateStr, keystrokeCount,
                isSuccess, editorView, pc, event, best, raised, url, reading, share>>

\* saveCustomExercise stores insertUnderlinedCursor(text, cursorPos); loading the
\* exercise parses it again
CodecSave ==
    /\ variant = "main"
    /\ codec.phase = "input"
    /\ LET marked == insertUnderlinedCursor(codec.text, codec.cursorPos)
       IN  codec' = [codec EXCEPT !.phase = "saved", !.marked = marked,
                                  !.parsed = parseUnderlinedCursor(marked)]
    /\ CodecUnchanged

\* the text as an exercise's start and final: what loadExercise, checkSuccess and
\* createTargetView make of it
CodecDecode ==
    /\ codec.phase = "input"
    /\ LET parsed == parseTextWithCursor(variant, codec.text)
       IN  codec' = [codec EXCEPT !.phase = "decoded", !.parsed = parsed,
                                  !.expected = ExpectedCursorPos(parsed),
                                  !.start = StartCursorPos(parsed),
                                  !.highlight = HighlightPos(parsed),
                                  !.view = createEditor(parsed.text, StartCursorPos(parsed))]
    /\ CodecUnchanged

CodecNext == CodecSave \/ CodecDecode

CodecSpec == CodecInit /\ [][CodecNext]_vars

(* ---------- the codec's properties (CodecSpec) ---------- *)

\* C5: for every text t and every cursor offset p the editor can report for it
\* (0 <= p <= length of t), parseUnderlinedCursor(insertUnderlinedCursor(t, p)) is
\* exactly {text: t, cursorPos: p}
C5_RoundTripRecovers ==
    codec.phase = "saved" =>
        codec.parsed = [text |-> codec.text, cursorPos |-> codec.cursorPos]

\* C6: when the decoded text has length n > 0 and the decoded cursor is c >= n, the
\* expected cursor of checkSuccess, the initial cursor of loadExercise and the
\* highlighted position of createTargetView are all n - 1
C6_ClampIsLastOffset ==
    LET n == Len16(codec.parsed.text)
    IN  (codec.phase = "decoded" /\ n > 0 /\ codec.parsed.cursorPos >= n) =>
            /\ codec.expected = n - 1
            /\ codec.start = n - 1
            /\ codec.highlight = n - 1

C6_Witness ==
    /\ codec.phase = "decoded"
    /\ Len16(codec.parsed.text) > 0
    /\ codec.parsed.cursorPos >= Len16(codec.parsed.text)
    /\ codec.expected = Len16(codec.parsed.text) - 1

\* an offset that is absent, or on a character of a text of length n, or 0 when n is 0
InRange(c, n) == c = NULL \/ (0 <= c /\ c <= n - 1) \/ (n = 0 /\ c = 0)

\* C7: the decoded and clamped cursor of an exercise text (either variant) is null or
\* in [0, n-1], n the length of the decoded text, and is n only when n is 0; the
\* selection loadExercise gives the editor is such a position
C7_ClampedInRange ==
    LET n == Len16(codec.parsed.text)
    IN  codec.phase = "decoded" =>
            /\ InRange(codec.expected, n)
            /\ InRange(codec.start, n)
            /\ InRange(codec.highlight, n)
            /\ codec.view.doc = codec.parsed.text
            /\ codec.view.head # NULL /\ InRange(codec.view.head, n)

C7_Witness ==
    /\ codec.phase = "decoded"
    /\ variant = "daily"
    /\ codec.text = <<"a", "a", "^">>
    /\ codec.parsed.cursorPos = 2
    /\ codec.start = 1
    /\ codec.view.head = 1

\* exactly one character of the text is underlined
OneUnderlined(text) ==
    /\ Cardinality({i \in 1..Len(text) : text[i] = COMBINING_UNDERLINE}) = 1
    /\ text[1] # COMBINING_UNDERLINE

\* the number of code points before the underlined character
MarkedIndex(text) == (CHOOSE i \in 1..Len(text) : text[i] = COMBINING_UNDERLINE) - 2

\* C8: for a text with exactly one underlined character, the cursorPos of
\* parseUnderlinedCursor is the editor offset (in UTF-16 code units) of that character
\* in the returned plain text, also after characters of two code units
C8_CursorPosIsEditorOffset ==
    (codec.phase = "decoded" /\ variant = "main" /\ OneUnderlined(codec.text)) =>
        codec.parsed.cursorPos =
            Len16(SubSeq(codec.parsed.text, 1, MarkedIndex(codec.text)))

Count(c, text) == Cardinality({i \in 1..Len(text) : text[i] = c})

\* the index of the first occurrence
IndexOf(c, text) == CHOOSE i \in 1..Len(text) : text[i] = c /\ \A j \in 1..(i - 1) : text[j] # c

=============================================================================
